---- MODULE Spec2Model ----
(***************************************************************************)
(* JS8Chess controller (src/js8chess/engine.py) with the game session      *)
(* (src/js8chess/game.py), the parsed OTA messages                         *)
(* (src/js8chess/protocol.py) and the bridge to the JS8Call daemon         *)
(* (src/js8chess/js8bridge.py).                                            *)
(*                                                                         *)
(* Threads: the UCI reader (main thread), the bridge receiver (js8-recv,   *)
(* running _on_radio_message) and one go-handler thread per `go`.          *)
(* Granularity: one action per lock region / per queue operation together  *)
(* with the straight-line code that follows it up to the next access of    *)
(* shared state.                                                           *)
(***************************************************************************)
EXTENDS Integers, Sequences, FiniteSets, TLC

\* ---------------------------------------------------------------- bounds
MaxEvents == 3          \* environment events: UCI commands, send_new_proposal
                        \* calls and directed frames delivered by the bridge
max_retries == 2        \* Config.max_retries (configurable)
move_response_wait_seconds == 10   \* Config.move_response_wait_seconds
PollSeconds == 5        \* queue.get(timeout=min(wait, 5.0)); wait -= 5.0
MaxLines == 2           \* lines the bridge receiver reads from the daemon

\* ------------------------------------------------------------ chess rules
\* A fragment of chess, closed under the moves below: the pawn moves e2e4
\* (White) and e7e5, d7d5 (Black) are legal exactly when it is that side's
\* turn and the pawn has not moved yet; e2e5 parses as coordinate notation
\* but is never legal.
WhiteMoves == {"e2e4"}
BlackMoves == {"e7e5", "d7d5"}
Moves == WhiteMoves \cup BlackMoves \cup {"e2e5"}

\* Move texts given to the formatter and found on the wire beside the ones
\* above: a rook move, a promotion, mixed case, and a text that is not
\* coordinate notation.
CodecMoves == {"e2e4", "a1a8", "e7e8q", "E2e4", "zz"}

\* str.upper / str.lower on the texts of the model.
Upper(m) == CASE m = "e2e4" -> "E2E4" [] m = "e7e5" -> "E7E5" [] m = "e2e5" -> "E2E5"
                 [] m = "d7d5" -> "D7D5" [] m = "a1a8" -> "A1A8"
                 [] m = "e7e8q" -> "E7E8Q" [] m = "E2e4" -> "E2E4"
                 [] m = "zz" -> "ZZ" [] OTHER -> m
Lower(m) == CASE m = "E2E4" -> "e2e4" [] m = "E7E5" -> "e7e5" [] m = "E2E5" -> "e2e5"
                 [] m = "D7D5" -> "d7d5" [] m = "A1A8" -> "a1a8"
                 [] m = "E7E8Q" -> "e7e8q" [] m = "E2e4" -> "e2e4"
                 [] m = "ZZ" -> "zz" [] OTHER -> m
\* The upper-case texts matching [A-H][1-8][A-H][1-8][QRBN]?
WireMoves == {"E2E4", "E7E5", "E2E5", "D7D5", "A1A8", "E7E8Q"}

Turn(stack) == IF Len(stack) % 2 = 0 THEN "W" ELSE "B"

InStack(stack, m) == \E i \in 1..Len(stack) : stack[i] = m

\* move in self.board.legal_moves
validate_move(stack, m) ==
    /\ m \in WhiteMoves \cup BlackMoves
    /\ (m \in WhiteMoves) = (Turn(stack) = "W")
    /\ ~InStack(stack, m)

\* ------------------------------------------------------------ OTA messages
Colors == {"W", "B"}
GameIds == {"T1", "T2"}          \* 12-digit timestamps
NowIds == {"T1"}                 \* values of the clock
ErrCodes == {"ERR01", "ERR02", "ERR03", "ERR04", "ERR05"}

ERR_ILLEGAL_MOVE == "ERR01"
ERR_BAD_MOVE_NUM == "ERR02"
ERR_NO_SESSION == "ERR03"
ERR_DESYNC == "ERR05"

\* OTAMessage: unused attributes are "-" (strings) or 0 (ordinals).
OTAMessage(t, c, ts, n, m, e, rn) ==
    [msg_type |-> t, color |-> c, timestamp |-> ts, move_num |-> n, move |-> m,
     error_code |-> e, resync_move_num |-> rn]

NoneMsg == OTAMessage("NONE", "-", "-", 0, "-", "-", 0)

\* A directed text, upper-cased: `to` is the form of its beginning and `kind`
\* the payload grammar the rest matches.  With R the remote and L the local
\* callsign, `to` is "RL" for "R L JS8CHESS", "LR" for "L R JS8CHESS", "L"
\* for the bare "L JS8CHESS", "XL" for "X L JS8CHESS" with another station X
\* and "-" for a text without any of these.
Prefixes == {"RL", "LR", "L", "XL", "-"}
\* The FROM field of the daemon: empty, the remote callsign, another station.
FromCalls == {"", "R", "X"}

Wire(to, k, c, ts, n, m, e) ==
    [to |-> to, kind |-> k, color |-> c, ts |-> ts, n |-> n, move |-> m, code |-> e]

InboundFrames ==
    {Wire("RL", "NEW", c, "-", 0, "-", "-") : c \in Colors}
    \cup {Wire("RL", "ACCEPT", c, "T1", 0, "-", "-") : c \in Colors}
    \cup {Wire("RL", "MOVE", "-", "-", 1, "E2E4", "-"),
          Wire("RL", "MOVE", "-", "-", 2, "E7E5", "-"),
          Wire("RL", "MOVE", "-", "-", 1, "E2E5", "-"),
          Wire("RL", "MOVE", "-", "-", 2, "E2E4", "-")}
    \cup {Wire("RL", "ACK", "-", "-", 0, "-", "-")}
    \cup {Wire("RL", "ERR", "-", "-", 0, "-", ERR_ILLEGAL_MOVE)}
    \cup {Wire("RL", "RS", "-", ts, 1, "-", "-") : ts \in GameIds}
    \cup {Wire("RL", "RS", "-", "T1", 3, "-", "-")}
    \cup {Wire("RL", "OKRS", "-", "T1", 1, "-", "-")}
    \cup {Wire("RL", "JUNK", "-", "-", 0, "-", "-")}
    \cup {Wire("XL", "MOVE", "-", "-", 1, "E2E4", "-")}

\* Mutant of parse_message: the move keeps the case it has on the wire.
parse_message_keeps_case(f, from_call) ==
    IF f.to \notin {"RL", "L"} THEN NoneMsg
    ELSE IF from_call # "" /\ from_call # "R" THEN NoneMsg
    ELSE CASE f.kind = "ACK" -> OTAMessage("ACK", "-", "-", 0, "-", "-", 0)
           [] f.kind = "NEW" -> OTAMessage("NEW_PROPOSAL", f.color, "-", 0, "-", "-", 0)
           [] f.kind = "ACCEPT" -> OTAMessage("ACCEPTANCE", f.color, f.ts, 0, "-", "-", 0)
           [] f.kind = "ERR" -> OTAMessage("ERROR", "-", "-", 0, "-", f.code, 0)
           [] f.kind = "RS" -> OTAMessage("RESYNC_REQUEST", "-", f.ts, 0, "-", "-", f.n)
           [] f.kind = "OKRS" -> OTAMessage("RESYNC_OK", "-", f.ts, 0, "-", "-", f.n)
           [] f.kind = "MOVE" -> OTAMessage("MOVE", "-", "-", f.n, Upper(f.move), "-", 0)
           [] OTHER -> OTAMessage("UNKNOWN", "-", "-", 0, "-", "-", 0)

parse_message(f, from_call) ==
    IF f.to \notin {"RL", "L"} THEN NoneMsg
    ELSE IF from_call # "" /\ from_call # "R" THEN NoneMsg
    ELSE CASE f.kind = "ACK" -> OTAMessage("ACK", "-", "-", 0, "-", "-", 0)
           [] f.kind = "NEW" -> OTAMessage("NEW_PROPOSAL", f.color, "-", 0, "-", "-", 0)
           [] f.kind = "ACCEPT" -> OTAMessage("ACCEPTANCE", f.color, f.ts, 0, "-", "-", 0)
           [] f.kind = "ERR" -> OTAMessage("ERROR", "-", "-", 0, "-", f.code, 0)
           [] f.kind = "RS" -> OTAMessage("RESYNC_REQUEST", "-", f.ts, 0, "-", "-", f.n)
           [] f.kind = "OKRS" -> OTAMessage("RESYNC_OK", "-", f.ts, 0, "-", "-", f.n)
           [] f.kind = "MOVE" -> OTAMessage("MOVE", "-", "-", f.n, Lower(Upper(f.move)), "-", 0)
           [] OTHER -> OTAMessage("UNKNOWN", "-", "-", 0, "-", "-", 0)

\* Formatters: the frame handed to the bridge (upper case on the wire).
fmt_new_proposal(color) == Wire("RL", "NEW", color, "-", 0, "-", "-")
\* Mutant of fmt_acceptance: the frame carries the other colour.
fmt_acceptance_other_colour(timestamp, color) ==
    Wire("LR", "ACCEPT", IF color = "W" THEN "B" ELSE "W", timestamp, 0, "-", "-")

fmt_acceptance(timestamp, color) == Wire("LR", "ACCEPT", color, timestamp, 0, "-", "-")
\* "{move_num}{MOVE}": a payload of the move grammar when the ordinal prints
\* as digits and the upper-cased move is coordinate notation.
fmt_move(move_num, move_uci) ==
    Wire("RL", IF move_num >= 0 /\ Upper(move_uci) \in WireMoves THEN "MOVE" ELSE "JUNK",
         "-", "-", move_num, Upper(move_uci), "-")
fmt_error(code) == Wire("RL", "ERR", "-", "-", 0, "-", code)
fmt_resync_ok(timestamp, move_num) == Wire("LR", "OKRS", "-", timestamp, move_num, "-", "-")

\* ------------------------------------------------------------ game session
\* A notation document: its main line, the paths (from the root) of the nodes
\* off the main line, and the Result header.  NoFile: no file on disk.
NoFile == [main |-> <<>>, side |-> {}, result |-> "missing"]

\* GameSession.__init__: empty board, empty notation document, Result "*".
\* The notation file is not written here.
GameSession(game_id, local_color) ==
    [game_id |-> game_id, local_color |-> local_color, stack |-> <<>>,
     main |-> <<>>, on_main |-> TRUE, side |-> {}, result |-> "*"]

\* The document _pgn_game of a session.
Doc(s) == [main |-> s.main, side |-> s.side, result |-> s.result]

expected_move_num(s) == Len(s.stack) + 1

is_local_turn(s) == Turn(s.stack) = s.local_color

\* Mutant of apply_move: the move is pushed without the legality test.
apply_move_unchecked(s, m) ==
    LET extends == s.on_main /\ Len(s.stack) = Len(s.main)
    IN [ok |-> TRUE,
        s |-> [s EXCEPT !.stack = Append(@, m),
                        !.main = IF extends THEN Append(@, m) ELSE @,
                        !.side = IF extends THEN @ ELSE @ \cup {Append(s.stack, m)},
                        !.on_main = extends]]

\* apply_move: push on the board and add a variation at the current node of
\* the notation document (_pgn_node).  The current node is the node reached
\* by the moves of the board; on_main tells whether it lies on the main line
\* of the document (main).  add_variation always appends a new child: the
\* main line grows only when the current node is the end of the main line,
\* otherwise the new node is a side variation.
apply_move(s, m) ==
    IF validate_move(s.stack, m)
    THEN LET extends == s.on_main /\ Len(s.stack) = Len(s.main)
         IN [ok |-> TRUE,
             s |-> [s EXCEPT !.stack = Append(@, m),
                             !.main = IF extends THEN Append(@, m) ELSE @,
                             !.side = IF extends THEN @ ELSE @ \cup {Append(s.stack, m)},
                             !.on_main = extends]]
    ELSE [ok |-> FALSE, s |-> s]

\* _save_pgn: the file of the session's game id holds the document.
save_pgn(fs, s) == [fs EXCEPT ![s.game_id] = Doc(s)]

Min(a, b) == IF a < b THEN a ELSE b

\* Mutant of restore_to_ply: one ply too many is replayed.
restore_one_more(s, fs, target_ply) ==
    IF fs[s.game_id] = NoFile
    THEN [ok |-> FALSE, s |-> s]
    ELSE LET doc == fs[s.game_id]
             applied == IF target_ply < 0 THEN 0 ELSE Min(target_ply + 1, Len(doc.main))
         IN [ok |-> TRUE,
             s |-> [s EXCEPT !.stack = SubSeq(doc.main, 1, applied),
                             !.main = doc.main, !.side = doc.side,
                             !.result = doc.result, !.on_main = TRUE]]

\* restore_to_ply: reload the document from the file and replay target_ply
\* plies of its main line (none when target_ply <= 0, all of them when the
\* main line is shorter); the document read becomes the session's document.
restore_to_ply(s, fs, target_ply) ==
    IF fs[s.game_id] = NoFile
    THEN [ok |-> FALSE, s |-> s]
    ELSE LET doc == fs[s.game_id]
             applied == IF target_ply <= 0 THEN 0 ELSE Min(target_ply, Len(doc.main))
         IN [ok |-> TRUE,
             s |-> [s EXCEPT !.stack = SubSeq(doc.main, 1, applied),
                             !.main = doc.main, !.side = doc.side,
                             !.result = doc.result, !.on_main = TRUE]]


\* --------------------------------------------------------------- state
VARIABLES
    state,                  \* self._state
    game,                   \* self._game: 0 (None) or an index into sessions
    sessions,               \* the GameSession objects created so far
    files,                  \* notation files on disk, by game id
    radio_queue,            \* self._radio_queue
    last_position_moves,    \* self._last_position_moves
    go_stop_event,          \* self._go_stop_event
    workers,                \* the go-handler threads, in spawn order
    rx,                     \* the bridge receiver thread inside _on_radio_message
    sent,                   \* history: every frame handed to bridge.send
    auto_accept,            \* Config.auto_accept
    used,                   \* history: environment events consumed
    last_call,              \* history: the last direct call of a function, its result
    bridge                  \* the JS8Bridge object and the threads inside it

vars == <<state, game, sessions, files, radio_queue, last_position_moves,
          go_stop_event, workers, rx, sent, auto_accept, used, last_call, bridge>>

NoCall == [op |-> "-", ok |-> FALSE]

\* JS8Bridge.__init__: no socket, not running, lock free, receiver thread not
\* started.  `obj` is the state of the one socket object in existence ("none",
\* "ok": connected, "broken": its connection is lost, "closed"), `sock` tells
\* whether self._sock refers to it, `lock` who holds self._lock, `up` whether
\* the daemon is listening; recv, send and stop are the positions of the
\* receiver thread, of a thread calling send() and of the thread calling
\* stop(); ret is the last value send() returned ("-": none yet), lines the
\* history of the lines recv() returned, cb that of the lines for which
\* _dispatch called the callback and calls the number of frames of `sent` for
\* which the engine's call of send() has begun.
NewBridge ==
    [running |-> FALSE, sock |-> FALSE, obj |-> "none", lock |-> "free", up |-> TRUE,
     recv |-> "unstarted", send |-> "idle", stop |-> "idle", ret |-> "-", lines |-> <<>>,
     cb |-> <<>>, calls |-> 0]

\* Front-end move lists sent with `position`.
PositionLists ==
    {<<"E2E4">>, <<"e2e4", "e7e5">>, <<"e2e5", "e2e4">>, <<"e2e4", "e2e5">>}

LowerAll(ms) == [i \in 1..Len(ms) |-> Lower(ms[i])]

\* Mutant of Opposite: the same colour.
Opposite_same(c) == c

Opposite(c) == IF c = "W" THEN "B" ELSE "W"

\* A line on the UCI output channel.
Info(text) == <<"info string", text>>
BestMove(m) == <<"bestmove", m>>

\* One entry of the send history: the frame, the call site, the sending
\* go-handler (0: another thread).
Tx(frame, via, by) == [frame |-> frame, via |-> via, by |-> by]

\* A go-handler thread: its position (pc), its locals (game, new_moves, and
\* inside _await_radio_move wait and retries_left; phase 1 is the await of
\* line 184, phase 2 the await of line 223), and history: the UCI lines it
\* wrote (out) and what happened while it was live (seen).
NewWorker(seen) ==
    [pc |-> "start", game |-> 0, new_moves |-> <<>>, phase |-> 0,
     wait |-> 0, retries_left |-> 0, out |-> <<>>, seen |-> seen]

RxIdle == [pc |-> "idle", msg |-> NoneMsg, state |-> "-"]

\* JS8ChessEngine.__init__
InitFresh ==
    /\ state = "NO_GAME"
    /\ game = 0
    /\ sessions = <<>>
    /\ files = [id \in GameIds |-> NoFile]
    /\ radio_queue = <<>>
    /\ last_position_moves = <<>>
    /\ go_stop_event = FALSE
    /\ workers = <<>>
    /\ rx = RxIdle
    /\ sent = <<>>
    /\ auto_accept \in BOOLEAN
    /\ used = 0
    /\ last_call = NoCall
    /\ bridge = NewBridge

\* The engine right after it accepted the peer's proposal `NEW c`
\* (_handle_new_proposal, auto-accept on): the state InitFresh reaches by
\* OnRadioMessage and HandleNewProposal.
InitAccepted ==
    /\ state = "GAME_ACTIVE"
    /\ game = 1
    /\ \E c \in Colors :
         /\ sessions = <<GameSession("T1", Opposite(c))>>
         /\ sent = <<Tx(fmt_acceptance("T1", Opposite(c)), "acceptance", 0)>>
    /\ files = [id \in GameIds |-> NoFile]
    /\ radio_queue = <<>>
    /\ last_position_moves = <<>>
    /\ go_stop_event = FALSE
    /\ workers = <<>>
    /\ rx = RxIdle
    /\ auto_accept = TRUE
    /\ used = 0
    /\ last_call = NoCall
    /\ bridge = NewBridge

Init == InitFresh \/ InitAccepted

Live(w) == workers[w].pc # "done"

\* History: the live go-handlers note an event.
Note(what) ==
    [w \in 1..Len(workers) |->
        IF Live(w) THEN [workers[w] EXCEPT !.seen = @ \cup {what}] ELSE workers[w]]


\* ------------------------------------------------- resync (engine.py 533-563)
\* Mutant of handle_resync_request: the game id of the request is not
\* compared with the session's.
handle_resync_request_any_id(msg, g, ss, fs) ==
    IF g = 0
    THEN [sessions |-> ss, tx |-> <<fmt_error(ERR_NO_SESSION)>>,
          out |-> <<Info("TX error")>>]
    ELSE LET r == restore_to_ply(ss[g], fs, msg.resync_move_num - 1)
         IN IF ~r.ok
            THEN [sessions |-> ss, tx |-> <<fmt_error(ERR_DESYNC)>>,
                  out |-> <<Info("TX error")>>]
            ELSE [sessions |-> [ss EXCEPT ![g] = r.s],
                  tx |-> <<fmt_resync_ok(ss[g].game_id, msg.resync_move_num)>>,
                  out |-> <<Info("TX resync OK")>>]

\* _handle_resync_request against self._game = g: the sessions afterwards,
\* the frames sent and the UCI lines written.
handle_resync_request(msg, g, ss, fs) ==
    IF g = 0
    THEN [sessions |-> ss, tx |-> <<fmt_error(ERR_NO_SESSION)>>,
          out |-> <<Info("TX error")>>]
    ELSE IF msg.timestamp # ss[g].game_id
    THEN [sessions |-> ss, tx |-> <<fmt_error(ERR_DESYNC)>>,
          out |-> <<Info("TX error")>>]
    ELSE LET r == restore_to_ply(ss[g], fs, msg.resync_move_num - 1)
         IN IF ~r.ok
            THEN [sessions |-> ss, tx |-> <<fmt_error(ERR_DESYNC)>>,
                  out |-> <<Info("TX error")>>]
            ELSE [sessions |-> [ss EXCEPT ![g] = r.s],
                  tx |-> <<fmt_resync_ok(ss[g].game_id, msg.resync_move_num)>>,
                  out |-> <<Info("TX resync OK")>>]

TxAll(frames, via, by) == [i \in 1..Len(frames) |-> Tx(frames[i], via, by)]

\* --------------------------------------------------- UCI reader (main thread)
\* Mutant of UciNewGame: the front-end position cache is kept.
UciNewGame_keeps_cache ==
    /\ used < MaxEvents
    /\ used' = used + 1
    /\ game' = 0
    /\ state' = "NO_GAME"
    /\ workers' = Note("newgame")
    /\ UNCHANGED <<sessions, files, radio_queue, go_stop_event, rx, sent,
                   auto_accept, last_position_moves, last_call, bridge>>

\* Mutant of UciNewGame: the session is kept.
UciNewGame_keeps_session ==
    /\ used < MaxEvents
    /\ used' = used + 1
    /\ state' = "NO_GAME"
    /\ last_position_moves' = <<>>
    /\ workers' = Note("newgame")
    /\ UNCHANGED <<game, sessions, files, radio_queue, go_stop_event, rx, sent,
                   auto_accept, last_call, bridge>>

\* ucinewgame
UciNewGame ==
    /\ used < MaxEvents
    /\ used' = used + 1
    /\ game' = 0
    /\ state' = "NO_GAME"
    /\ last_position_moves' = <<>>
    /\ workers' = Note("newgame")
    /\ UNCHANGED <<sessions, files, radio_queue, go_stop_event, rx, sent,
                   auto_accept>>
    /\ UNCHANGED <<last_call, bridge>>

\* position startpos moves ...
HandlePosition ==
    /\ used < MaxEvents
    /\ used' = used + 1
    /\ \E ms \in PositionLists : last_position_moves' = LowerAll(ms)
    /\ UNCHANGED <<state, game, sessions, files, radio_queue, go_stop_event, workers,
                   rx, sent, auto_accept>>
    /\ UNCHANGED <<last_call, bridge>>

\* go: clear the stop event and start a go-handler thread.
HandleGo ==
    /\ used < MaxEvents
    /\ used' = used + 1
    /\ go_stop_event' = FALSE
    /\ workers' = Append(workers,
                  NewWorker(IF radio_queue # <<>> \/ rx.pc # "idle" THEN {"frame"}
                            ELSE {}))
    /\ UNCHANGED <<state, game, sessions, files, radio_queue, last_position_moves,
                   rx, sent, auto_accept>>
    /\ UNCHANGED <<last_call, bridge>>

\* stop: set the stop event (history: the live go-handlers are marked).
HandleStop ==
    /\ used < MaxEvents
    /\ used' = used + 1
    /\ go_stop_event' = TRUE
    /\ workers' = Note("stop")
    /\ UNCHANGED <<state, game, sessions, files, radio_queue, last_position_moves,
                   rx, sent, auto_accept>>
    /\ UNCHANGED <<last_call, bridge>>

\* Mutant of send_new_proposal: no test of the state.
send_new_proposal_unguarded(color) ==
    /\ used < MaxEvents
    /\ used' = used + 1
    /\ state' = "PROPOSAL_SENT"
    /\ sent' = Append(sent, Tx(fmt_new_proposal(color), "proposal", 0))
    /\ UNCHANGED <<game, sessions, files, radio_queue, last_position_moves,
                   go_stop_event, workers, rx, auto_accept, last_call, bridge>>

\* send_new_proposal(color)
send_new_proposal(color) ==
    /\ used < MaxEvents
    /\ used' = used + 1
    /\ IF state = "GAME_ACTIVE"
       THEN UNCHANGED <<state, sent>>
       ELSE /\ state' = "PROPOSAL_SENT"
            /\ sent' = Append(sent, Tx(fmt_new_proposal(color), "proposal", 0))
    /\ UNCHANGED <<game, sessions, files, radio_queue, last_position_moves,
                   go_stop_event, workers, rx, auto_accept>>
    /\ UNCHANGED <<last_call, bridge>>

SendNewProposal == \E color \in Colors : send_new_proposal(color)

\* ------------------------------------------- bridge receiver (js8-recv thread)

\* Mutant of OnRadioFrame: a NEW frame is taken up in GameActive too.
OnRadioFrame_reopens(from_call, f) ==
    /\ rx.pc = "idle"
    /\ used < MaxEvents
    /\ used' = used + 1
    /\ LET msg == parse_message(f, from_call) IN
         CASE msg.msg_type = "NONE" ->
                UNCHANGED <<state, game, sessions, last_position_moves, rx, workers>>
           [] msg.msg_type = "NEW_PROPOSAL" ->
                \* _handle_new_proposal, first lock region
                /\ state' = "AWAITING_PROPOSAL"
                /\ rx' = [pc |-> "proposal", msg |-> msg, state |-> "-"]
                /\ workers' = Note("frame")
                /\ UNCHANGED <<game, sessions, last_position_moves>>
           [] msg.msg_type = "ACCEPTANCE" ->
                \* _handle_acceptance, one lock region
                /\ workers' = Note("frame")
                /\ IF state # "PROPOSAL_SENT"
                   THEN UNCHANGED <<state, game, sessions, last_position_moves, rx>>
                   ELSE /\ sessions' = Append(sessions,
                                         GameSession(msg.timestamp, Opposite(msg.color)))
                        /\ game' = Len(sessions) + 1
                        /\ state' = "GAME_ACTIVE"
                        /\ last_position_moves' = <<>>
                        /\ UNCHANGED rx
           [] OTHER ->
                /\ workers' = Note("frame")
                /\ rx' = [pc |-> "route", msg |-> msg, state |-> state]
                /\ UNCHANGED <<state, game, sessions, last_position_moves>>
    /\ UNCHANGED <<files, radio_queue, go_stop_event, sent, auto_accept>>
    /\ UNCHANGED <<last_call, bridge>>

\* _on_radio_message up to the first effect: parse, read the state, and for
\* the negotiation kinds the first lock region of their handler.
OnRadioFrame(from_call, f) ==
    /\ rx.pc = "idle"
    /\ used < MaxEvents
    /\ used' = used + 1
    /\ LET msg == parse_message(f, from_call) IN
         CASE msg.msg_type = "NONE" ->
                UNCHANGED <<state, game, sessions, last_position_moves, rx, workers>>
           [] msg.msg_type = "NEW_PROPOSAL" ->
                \* _handle_new_proposal, first lock region
                /\ IF state = "GAME_ACTIVE"
                   THEN UNCHANGED <<state, rx>>
                   ELSE /\ state' = "AWAITING_PROPOSAL"
                        /\ rx' = [pc |-> "proposal", msg |-> msg, state |-> "-"]
                /\ workers' = Note("frame")
                /\ UNCHANGED <<game, sessions, last_position_moves>>
           [] msg.msg_type = "ACCEPTANCE" ->
                \* _handle_acceptance, one lock region
                /\ workers' = Note("frame")
                /\ IF state # "PROPOSAL_SENT"
                   THEN UNCHANGED <<state, game, sessions, last_position_moves, rx>>
                   ELSE /\ sessions' = Append(sessions,
                                         GameSession(msg.timestamp, Opposite(msg.color)))
                        /\ game' = Len(sessions) + 1
                        /\ state' = "GAME_ACTIVE"
                        /\ last_position_moves' = <<>>
                        /\ UNCHANGED rx
           [] OTHER ->
                /\ workers' = Note("frame")
                /\ rx' = [pc |-> "route", msg |-> msg, state |-> state]
                /\ UNCHANGED <<state, game, sessions, last_position_moves>>
    /\ UNCHANGED <<files, radio_queue, go_stop_event, sent, auto_accept>>
    /\ UNCHANGED <<last_call, bridge>>

\* What the bridge delivers: every frame with the peer as FROM, one frame
\* without FROM and one that another station sent with the peer's prefix.
InboundDeliveries ==
    ({"R"} \X InboundFrames)
    \cup {<<"", Wire("RL", "NEW", "W", "-", 0, "-", "-")>>,
          <<"X", Wire("RL", "MOVE", "-", "-", 1, "E2E4", "-")>>}

OnRadioMessage == \E d \in InboundDeliveries : OnRadioFrame(d[1], d[2])

\* _on_radio_message, lines 426-432: routing on the state read before.
RouteMessage ==
    /\ rx.pc = "route"
    /\ rx' = RxIdle
    /\ IF rx.state = "GAME_ACTIVE"
       THEN /\ radio_queue' = Append(radio_queue, rx.msg)
            /\ UNCHANGED <<sessions, sent>>
       ELSE IF rx.msg.msg_type = "RESYNC_REQUEST"
       THEN LET r == handle_resync_request(rx.msg, game, sessions, files)
            IN /\ sessions' = r.sessions
               /\ sent' = sent \o TxAll(r.tx, "inline", 0)
               /\ UNCHANGED radio_queue
       ELSE UNCHANGED <<radio_queue, sessions, sent>>
    /\ UNCHANGED <<state, game, files, last_position_moves, go_stop_event, workers,
                   auto_accept, used>>
    /\ UNCHANGED <<last_call, bridge>>

\* _handle_new_proposal after its first lock region (lines 446-494).
HandleNewProposal ==
    /\ rx.pc = "proposal"
    /\ rx' = RxIdle
    /\ IF ~auto_accept
       THEN /\ state' = "NO_GAME"
            /\ UNCHANGED <<game, sessions, last_position_moves, sent>>
       ELSE \E timestamp \in NowIds :           \* proto.now_timestamp()
              LET local_color == Opposite(rx.msg.color) IN
              /\ sent' = Append(sent, Tx(fmt_acceptance(timestamp, local_color),
                                         "acceptance", 0))
              /\ sessions' = Append(sessions, GameSession(timestamp, local_color))
              /\ game' = Len(sessions) + 1
              /\ state' = "GAME_ACTIVE"
              /\ last_position_moves' = <<>>
    /\ UNCHANGED <<files, radio_queue, go_stop_event, workers, auto_accept, used>>
    /\ UNCHANGED <<last_call, bridge>>


\* --------------------------------------------------------- go-handler thread
None == "None"

\* Mutant of process_radio_item: a good Move is reported but never pushed on
\* the board.
process_radio_item_unapplied(msg, g, ss, fs) ==
    LET same(ret, tx, out) ==
            [ret |-> ret, sessions |-> ss, files |-> fs, tx |-> tx, out |-> out]
    IN
    CASE msg.msg_type = "MOVE" ->
           IF g = 0
           THEN same(None, <<fmt_error(ERR_NO_SESSION)>>, <<Info("TX error")>>)
           ELSE IF msg.move_num # expected_move_num(ss[g])
           THEN same(None, <<fmt_error(ERR_BAD_MOVE_NUM)>>, <<Info("TX error")>>)
           ELSE IF ~validate_move(ss[g].stack, msg.move)
           THEN same(None, <<fmt_error(ERR_ILLEGAL_MOVE)>>, <<Info("TX error")>>)
           ELSE same(msg.move, <<>>, <<Info("RX move")>>)
      [] msg.msg_type = "ERROR" -> same(None, <<>>, <<Info("Remote sent error")>>)
      [] msg.msg_type = "RESYNC_REQUEST" ->
           LET r == handle_resync_request(msg, g, ss, fs)
           IN [ret |-> None, sessions |-> r.sessions, files |-> fs,
               tx |-> r.tx, out |-> r.out]
      [] OTHER -> same(None, <<>>, <<>>)

\* Mutant of process_radio_item: legality is checked before the ordinal.
process_radio_item_legality_first(msg, g, ss, fs) ==
    LET same(ret, tx, out) ==
            [ret |-> ret, sessions |-> ss, files |-> fs, tx |-> tx, out |-> out]
    IN
    CASE msg.msg_type = "MOVE" ->
           IF g = 0
           THEN same(None, <<fmt_error(ERR_NO_SESSION)>>, <<Info("TX error")>>)
           ELSE IF ~validate_move(ss[g].stack, msg.move)
           THEN same(None, <<fmt_error(ERR_ILLEGAL_MOVE)>>, <<Info("TX error")>>)
           ELSE IF msg.move_num # expected_move_num(ss[g])
           THEN same(None, <<fmt_error(ERR_BAD_MOVE_NUM)>>, <<Info("TX error")>>)
           ELSE LET a == apply_move(ss[g], msg.move)
                IN [ret |-> msg.move,
                    sessions |-> [ss EXCEPT ![g] = a.s],
                    files |-> save_pgn(fs, a.s),
                    tx |-> <<>>,
                    out |-> <<Info("RX move")>>]
      [] msg.msg_type = "ERROR" -> same(None, <<>>, <<Info("Remote sent error")>>)
      [] msg.msg_type = "RESYNC_REQUEST" ->
           LET r == handle_resync_request(msg, g, ss, fs)
           IN [ret |-> None, sessions |-> r.sessions, files |-> fs,
               tx |-> r.tx, out |-> r.out]
      [] OTHER -> same(None, <<>>, <<>>)

\* Mutant of process_radio_item: an Unknown item is answered with ERR04.
process_radio_item_answers_unknown(msg, g, ss, fs) ==
    LET same(ret, tx, out) ==
            [ret |-> ret, sessions |-> ss, files |-> fs, tx |-> tx, out |-> out]
    IN
    CASE msg.msg_type = "ACK" -> same(None, <<>>, <<>>)
      [] msg.msg_type = "MOVE" ->
           IF g = 0
           THEN same(None, <<fmt_error(ERR_NO_SESSION)>>, <<Info("TX error")>>)
           ELSE IF msg.move_num # expected_move_num(ss[g])
           THEN same(None, <<fmt_error(ERR_BAD_MOVE_NUM)>>, <<Info("TX error")>>)
           ELSE IF ~validate_move(ss[g].stack, msg.move)
           THEN same(None, <<fmt_error(ERR_ILLEGAL_MOVE)>>, <<Info("TX error")>>)
           ELSE LET a == apply_move(ss[g], msg.move)
                IN [ret |-> msg.move,
                    sessions |-> [ss EXCEPT ![g] = a.s],
                    files |-> save_pgn(fs, a.s),
                    tx |-> <<>>,
                    out |-> <<Info("RX move")>>]
      [] msg.msg_type = "ERROR" -> same(None, <<>>, <<Info("Remote sent error")>>)
      [] msg.msg_type = "RESYNC_REQUEST" ->
           LET r == handle_resync_request(msg, g, ss, fs)
           IN [ret |-> None, sessions |-> r.sessions, files |-> fs,
               tx |-> r.tx, out |-> r.out]
      [] msg.msg_type = "RESYNC_OK" -> same(None, <<>>, <<>>)
      [] OTHER -> same(None, <<fmt_error("ERR04")>>, <<Info("TX error")>>)

\* _process_radio_item against self._game = g: the value returned, the
\* sessions and files afterwards, the frames sent, the UCI lines written.
process_radio_item(msg, g, ss, fs) ==
    LET same(ret, tx, out) ==
            [ret |-> ret, sessions |-> ss, files |-> fs, tx |-> tx, out |-> out]
    IN
    CASE msg.msg_type = "ACK" -> same(None, <<>>, <<>>)
      [] msg.msg_type = "MOVE" ->
           IF g = 0
           THEN same(None, <<fmt_error(ERR_NO_SESSION)>>, <<Info("TX error")>>)
           ELSE IF msg.move_num # expected_move_num(ss[g])
           THEN same(None, <<fmt_error(ERR_BAD_MOVE_NUM)>>, <<Info("TX error")>>)
           ELSE IF ~validate_move(ss[g].stack, msg.move)
           THEN same(None, <<fmt_error(ERR_ILLEGAL_MOVE)>>, <<Info("TX error")>>)
           ELSE LET a == apply_move(ss[g], msg.move)
                IN [ret |-> msg.move,
                    sessions |-> [ss EXCEPT ![g] = a.s],
                    files |-> save_pgn(fs, a.s),
                    tx |-> <<>>,
                    out |-> <<Info("RX move")>>]
      [] msg.msg_type = "ERROR" -> same(None, <<>>, <<Info("Remote sent error")>>)
      [] msg.msg_type = "RESYNC_REQUEST" ->
           LET r == handle_resync_request(msg, g, ss, fs)
           IN [ret |-> None, sessions |-> r.sessions, files |-> fs,
               tx |-> r.tx, out |-> r.out]
      [] msg.msg_type = "RESYNC_OK" -> same(None, <<>>, <<>>)
      [] OTHER -> same(None, <<>>, <<>>)

\* _retransmit_last_local_move against self._game = g: the frames sent.
retransmit_last_local_move(g, ss) ==
    IF g = 0 THEN <<>>
    ELSE LET move_list == ss[g].stack
             last_local_ply == expected_move_num(ss[g]) - 1
         IN IF move_list = <<>> THEN <<>>
            ELSE IF last_local_ply < 1 \/ last_local_ply > Len(move_list) THEN <<>>
            ELSE <<fmt_move(last_local_ply, move_list[last_local_ply])>>

\* Mutant of apply_and_transmit_local_move: the ordinal is read after the
\* move was applied.
apply_and_transmit_late_ordinal(s, uci_move) ==
    IF ~validate_move(s.stack, uci_move)
    THEN [ok |-> FALSE, s |-> s, tx |-> <<>>,
          out |-> <<Info("ERROR: invalid local move")>>]
    ELSE LET a == apply_move(s, uci_move)
             move_num == expected_move_num(a.s)
         IN [ok |-> TRUE, s |-> a.s, tx |-> <<fmt_move(move_num, uci_move)>>,
             out |-> <<Info("TX")>>]

\* Mutant of apply_and_transmit_local_move: an invalid move is skipped
\* instead of ending the go.
apply_and_transmit_skip_invalid(s, uci_move) ==
    IF ~validate_move(s.stack, uci_move)
    THEN [ok |-> TRUE, s |-> s, tx |-> <<>>,
          out |-> <<Info("ERROR: invalid local move")>>]
    ELSE LET move_num == expected_move_num(s)
             a == apply_move(s, uci_move)
         IN [ok |-> TRUE, s |-> a.s, tx |-> <<fmt_move(move_num, uci_move)>>,
             out |-> <<Info("TX")>>]

\* _apply_and_transmit_local_move on the go-handler's session s.
apply_and_transmit_local_move(s, uci_move) ==
    IF ~validate_move(s.stack, uci_move)
    THEN [ok |-> FALSE, s |-> s, tx |-> <<>>,
          out |-> <<Info("ERROR: invalid local move")>>]
    ELSE LET move_num == expected_move_num(s)
             a == apply_move(s, uci_move)
         IN [ok |-> TRUE, s |-> a.s, tx |-> <<fmt_move(move_num, uci_move)>>,
             out |-> <<Info("TX")>>]

\* gui_moves[len(board_moves):]
new_moves_of(gui_moves, board_moves) ==
    SubSeq(gui_moves, Len(board_moves) + 1, Len(gui_moves))

\* The thread ends; its locals are gone.
Finish(wk, lines) ==
    [wk EXCEPT !.pc = "done", !.out = @ \o lines, !.game = 0, !.new_moves = <<>>,
               !.wait = 0, !.retries_left = 0]

\* Mutant of EnterAwait: one retry too many.
EnterAwait_extra_retry(wk, phase, lines) ==
    [wk EXCEPT !.pc = "get", !.phase = phase, !.out = @ \o lines,
               !.wait = move_response_wait_seconds, !.retries_left = max_retries + 1]

\* _await_radio_move entered: wait and retries_left initialised.
EnterAwait(wk, phase, lines) ==
    [wk EXCEPT !.pc = "get", !.phase = phase, !.out = @ \o lines,
               !.wait = move_response_wait_seconds, !.retries_left = max_retries]

\* _go_handler, lines 176-187: first read of the state.
GoStart(w) ==
    /\ workers[w].pc = "start"
    /\ workers' = [workers EXCEPT ![w] =
         IF state \in {"NO_GAME", "AWAITING_PROPOSAL"}
         THEN EnterAwait(@, 1, <<Info("Waiting for game")>>)
         ELSE [@ EXCEPT !.pc = "reread"]]
    /\ UNCHANGED <<state, game, sessions, files, radio_queue, last_position_moves,
                   go_stop_event, rx, sent, auto_accept, used>>
    /\ UNCHANGED <<last_call, bridge>>

\* _go_handler, lines 189-202: second read, diff of the front-end list.
GoReread(w) ==
    /\ workers[w].pc = "reread"
    /\ workers' = [workers EXCEPT ![w] =
         IF state # "GAME_ACTIVE" \/ game = 0
         THEN Finish(@, <<Info("No active game"), BestMove("0000")>>)
         ELSE LET new_moves == new_moves_of(last_position_moves, sessions[game].stack)
              IN [@ EXCEPT !.game = game, !.new_moves = new_moves,
                           !.pc = IF new_moves # <<>> THEN "moves" ELSE "check"]]
    /\ UNCHANGED <<state, game, sessions, files, radio_queue, last_position_moves,
                   go_stop_event, rx, sent, auto_accept, used>>
    /\ UNCHANGED <<last_call, bridge>>

\* _go_handler, lines 206-209: one iteration over new_moves.
GoLocalMove(w) ==
    /\ workers[w].pc = "moves"
    /\ LET wk == workers[w]
           r == apply_and_transmit_local_move(sessions[wk.game], Head(wk.new_moves))
       IN IF ~r.ok
          THEN /\ workers' = [workers EXCEPT ![w] =
                     Finish(@, r.out \o <<BestMove("0000")>>)]
               /\ UNCHANGED <<sessions, files, sent>>
          ELSE /\ sessions' = [sessions EXCEPT ![wk.game] = r.s]
               /\ files' = save_pgn(files, r.s)
               /\ sent' = sent \o TxAll(r.tx, "local", w)
               /\ workers' = [workers EXCEPT ![w] =
                     [@ EXCEPT !.new_moves = Tail(@), !.out = @ \o r.out,
                               !.pc = IF Tail(wk.new_moves) = <<>> THEN "check"
                                      ELSE "moves"]]
    /\ UNCHANGED <<state, game, radio_queue, last_position_moves, go_stop_event, rx,
                   auto_accept, used>>
    /\ UNCHANGED <<last_call, bridge>>

\* _go_handler, lines 217-225: last check before awaiting the remote reply.
GoCheck(w) ==
    /\ workers[w].pc = "check"
    /\ workers' = [workers EXCEPT ![w] =
         IF game = 0 \/ state # "GAME_ACTIVE"
         THEN Finish(@, <<BestMove("0000")>>)
         ELSE EnterAwait(@, 2, <<Info("Waiting for remote move")>>)]
    /\ UNCHANGED <<state, game, sessions, files, radio_queue, last_position_moves,
                   go_stop_event, rx, sent, auto_accept, used>>
    /\ UNCHANGED <<last_call, bridge>>

\* What _go_handler does with the value _await_radio_move returned.
AfterAwait(wk, ret, lines) ==
    IF ret = None THEN Finish(wk, lines \o <<BestMove("0000")>>)
    ELSE IF wk.phase = 1 THEN [wk EXCEPT !.pc = "reread", !.out = @ \o lines]
    ELSE Finish(wk, lines \o <<BestMove(ret)>>)

\* _await_radio_move: the stop event is seen set (loop test, or after Empty).
AwaitStopped(w) ==
    /\ workers[w].pc = "get"
    /\ go_stop_event
    /\ workers' = [workers EXCEPT ![w] = AfterAwait(@, None, <<>>)]
    /\ UNCHANGED <<state, game, sessions, files, radio_queue, last_position_moves,
                   go_stop_event, rx, sent, auto_accept, used>>
    /\ UNCHANGED <<last_call, bridge>>

\* _await_radio_move: queue.get returns an item, _process_radio_item runs.
AwaitItem(w) ==
    /\ workers[w].pc = "get"
    /\ radio_queue # <<>>
    /\ LET r == process_radio_item(Head(radio_queue), game, sessions, files)
       IN /\ radio_queue' = Tail(radio_queue)
          /\ sessions' = r.sessions
          /\ files' = r.files
          /\ sent' = sent \o TxAll(r.tx, "reply", w)
          /\ workers' = [workers EXCEPT ![w] = AfterAwait(@, r.ret, r.out)]
    /\ UNCHANGED <<state, game, last_position_moves, go_stop_event, rx, auto_accept,
                   used>>
    /\ UNCHANGED <<last_call, bridge>>

\* The Empty polls of one wait window: wait -= 5.0 until wait <= 0.
RECURSIVE polls_until_expired(_)
polls_until_expired(wait) ==
    IF wait - PollSeconds <= 0 THEN 1 ELSE 1 + polls_until_expired(wait - PollSeconds)

\* _await_radio_move: the queue stays empty and the stop event unset for the
\* polls of one whole wait window (lines 284-298); the polls before the last
\* one only decrement wait.
AwaitTimeout(w) ==
    /\ workers[w].pc = "get"
    /\ radio_queue = <<>>
    /\ ~go_stop_event
    /\ LET wk == workers[w]
           wait == wk.wait - PollSeconds * polls_until_expired(wk.wait)   \* <= 0
       IN IF wk.retries_left > 0
          THEN LET tx == retransmit_last_local_move(game, sessions)
               IN /\ sent' = sent \o TxAll(tx, "retry", w)
                  /\ workers' = [workers EXCEPT ![w] =
                        [@ EXCEPT !.retries_left = @ - 1,
                                  !.wait = move_response_wait_seconds,
                                  !.out = @ \o [i \in 1..Len(tx) |-> Info("RETRY TX")]]]
          ELSE /\ workers' = [workers EXCEPT ![w] =
                     AfterAwait(@, None,
                                <<Info("ERROR: no response after max retries")>>)]
               /\ UNCHANGED sent
    /\ UNCHANGED <<state, game, sessions, files, radio_queue, last_position_moves,
                   go_stop_event, rx, auto_accept, used>>
    /\ UNCHANGED <<last_call, bridge>>

Next ==
    \/ UciNewGame
    \/ HandlePosition
    \/ HandleGo
    \/ HandleStop
    \/ SendNewProposal
    \/ OnRadioMessage
    \/ RouteMessage
    \/ HandleNewProposal
    \/ \E w \in 1..Len(workers) : GoStart(w)
    \/ \E w \in 1..Len(workers) : GoReread(w)
    \/ \E w \in 1..Len(workers) : GoLocalMove(w)
    \/ \E w \in 1..Len(workers) : GoCheck(w)
    \/ \E w \in 1..Len(workers) : AwaitStopped(w)
    \/ \E w \in 1..Len(workers) : AwaitItem(w)
    \/ \E w \in 1..Len(workers) : AwaitTimeout(w)

Spec == Init /\ [][Next]_vars

\* One step of some go-handler thread.
WorkerStep ==
    \E w \in 1..Len(workers) :
        \/ GoStart(w)
        \/ GoReread(w)
        \/ GoLocalMove(w)
        \/ GoCheck(w)
        \/ AwaitStopped(w)
        \/ AwaitItem(w)
        \/ AwaitTimeout(w)

\* The threads the engine started keep running: the receiver finishes the
\* callback it is in and a go-handler that can take a step takes one.  The
\* front-end and the peer are not obliged to do anything.
FairSpec ==
    /\ Spec
    /\ WF_vars(RouteMessage)
    /\ WF_vars(HandleNewProposal)
    /\ WF_vars(WorkerStep)

\* The same system started from construction only.
SpecFresh == InitFresh /\ [][Next]_vars


\* --------------------------------------- GameSession used on its own (game.py)
\* A session as its constructor leaves it, and direct calls of its methods.
ApplyArgs == Moves \cup {"zz"}          \* "zz" does not parse as a move
RestorePlies == (0 - 1)..3
Results == {"1-0", "1/2-1/2"}

InitGame ==
    /\ state = "GAME_ACTIVE"
    /\ game = 1
    /\ \E id \in GameIds, c \in Colors : sessions = <<GameSession(id, c)>>
    /\ files = [id \in GameIds |-> NoFile]
    /\ radio_queue = <<>>
    /\ last_position_moves = <<>>
    /\ go_stop_event = FALSE
    /\ workers = <<>>
    /\ rx = RxIdle
    /\ sent = <<>>
    /\ auto_accept = TRUE
    /\ used = 0
    /\ last_call = NoCall
    /\ bridge = NewBridge

EngineIdle ==
    UNCHANGED <<state, game, radio_queue, last_position_moves, go_stop_event, workers,
                rx, sent, auto_accept, used, bridge>>

\* apply_move(m); _save_pgn writes the file, or open/write raises OSError,
\* which _save_pgn logs and swallows.
ApplyMove(m) ==
    /\ LET r == apply_move(sessions[game], m)
       IN /\ sessions' = [sessions EXCEPT ![game] = r.s]
          /\ last_call' = [op |-> "apply_move", ok |-> r.ok]
          /\ IF r.ok
             THEN \E written \in BOOLEAN :
                    files' = IF written THEN save_pgn(files, r.s) ELSE files
             ELSE files' = files
    /\ EngineIdle

\* restore_to_ply(target_ply)
RestoreToPly(target_ply) ==
    /\ LET r == restore_to_ply(sessions[game], files, target_ply)
       IN /\ sessions' = [sessions EXCEPT ![game] = r.s]
          /\ last_call' = [op |-> "restore_to_ply", ok |-> r.ok]
    /\ files' = files
    /\ EngineIdle

\* set_result(result)
SetResult(result) ==
    /\ LET s == [sessions[game] EXCEPT !.result = result]
       IN /\ sessions' = [sessions EXCEPT ![game] = s]
          /\ \E written \in BOOLEAN :
               files' = IF written THEN save_pgn(files, s) ELSE files
    /\ last_call' = [op |-> "set_result", ok |-> TRUE]
    /\ EngineIdle

NextGame ==
    \/ \E m \in ApplyArgs : ApplyMove(m)
    \/ \E target_ply \in RestorePlies : RestoreToPly(target_ply)
    \/ \E result \in Results : SetResult(result)

SpecGame == InitGame /\ [][NextGame]_vars


\* ------------------------------------------- parse_message and the formatters
\* The functions of protocol.py called directly, with the station's own
\* callsigns L and R: rx.msg is the value parse_message returned, sent holds
\* the one text it was given with where the text came from, last_call the
\* function called and whether a message came back.
CodecOrdinals == {0, 1, 2, 42}

CodecTexts ==
    UNION {{Wire(p, "ACK", "-", "-", 0, "-", "-"),
            Wire(p, "NEW", "B", "-", 0, "-", "-"),
            Wire(p, "ACCEPT", "W", "T1", 0, "-", "-"),
            Wire(p, "ERR", "-", "-", 0, "-", "ERR03"),
            Wire(p, "RS", "-", "T2", 1, "-", "-"),
            Wire(p, "OKRS", "-", "T1", 2, "-", "-"),
            Wire(p, "MOVE", "-", "-", 1, "E2E4", "-"),
            Wire(p, "MOVE", "-", "-", 42, "E7E8Q", "-"),
            Wire(p, "JUNK", "-", "-", 0, "-", "-")} : p \in Prefixes}

InitCodec == InitFresh

CodecIdle ==
    UNCHANGED <<state, game, sessions, files, radio_queue, last_position_moves,
                go_stop_event, workers, auto_accept, used, bridge>>

\* parse_message(text, L, R, from_call)
ParseText(from_call, f) ==
    LET msg == parse_message(f, from_call)
    IN /\ rx' = [pc |-> "parsed", msg |-> msg, state |-> "-"]
       /\ sent' = <<Tx(f, "from:" \o from_call, 0)>>
       /\ last_call' = [op |-> "parse_message", ok |-> msg # NoneMsg]
       /\ CodecIdle

\* parse_message(fmt_acceptance(L, R, timestamp, color), L, R)
RoundTripAcceptance(timestamp, color) ==
    LET f == fmt_acceptance(timestamp, color)
        msg == parse_message(f, "")
    IN /\ rx' = [pc |-> "parsed", msg |-> msg, state |-> "-"]
       /\ sent' = <<Tx(f, "fmt_acceptance", 0)>>
       /\ last_call' = [op |-> "fmt_acceptance", ok |-> msg # NoneMsg]
       /\ CodecIdle

\* parse_message(fmt_resync_ok(L, R, timestamp, move_num), L, R)
RoundTripResyncOk(timestamp, move_num) ==
    LET f == fmt_resync_ok(timestamp, move_num)
        msg == parse_message(f, "")
    IN /\ rx' = [pc |-> "parsed", msg |-> msg, state |-> "-"]
       /\ sent' = <<Tx(f, "fmt_resync_ok", 0)>>
       /\ last_call' = [op |-> "fmt_resync_ok", ok |-> msg # NoneMsg]
       /\ CodecIdle

\* parse_message(fmt_move(L, R, move_num, move_uci), L, R)
RoundTripMove(move_num, move_uci) ==
    LET f == fmt_move(move_num, move_uci)
        msg == parse_message(f, "")
    IN /\ rx' = [pc |-> "parsed", msg |-> msg, state |-> "-"]
       /\ sent' = <<Tx(f, "fmt_move", 0)>>
       /\ last_call' = [op |-> "fmt_move", ok |-> msg # NoneMsg]
       /\ CodecIdle

NextCodec ==
    \/ \E from_call \in FromCalls, f \in CodecTexts : ParseText(from_call, f)
    \/ \E timestamp \in GameIds, color \in Colors : RoundTripAcceptance(timestamp, color)
    \/ \E timestamp \in GameIds, move_num \in CodecOrdinals :
         RoundTripResyncOk(timestamp, move_num)
    \/ \E move_num \in CodecOrdinals, move_uci \in CodecMoves :
         RoundTripMove(move_num, move_uci)

SpecCodec == InitCodec /\ [][NextCodec]_vars


\* ------------------------------------------- JS8Bridge (src/js8chess/js8bridge.py)
\* Threads: the receiver (js8-recv, _recv_loop), one thread calling send()
\* and the thread calling start() and stop().  self._lock is a
\* threading.Lock: not reentrant, taken by `with self._lock`.
\* One action per lock region, per blocking call and per read of a field
\* another thread writes.

\* What a line given to _dispatch can be: not JSON; a JSON object with
\* another event type; a directed message; a directed message for which
\* the callback raises; JSON that is not an object (a list, a number, ...).
LineKinds == {"not_json", "other_type", "directed", "directed_raises", "not_object"}

InitBridge ==
    /\ InitFresh
    /\ auto_accept = TRUE

BridgeIdle ==
    UNCHANGED <<state, game, sessions, files, radio_queue, last_position_moves,
                go_stop_event, workers, rx, sent, auto_accept, used, last_call>>

\* start()
Start ==
    /\ bridge.recv = "unstarted"
    /\ bridge' = [bridge EXCEPT !.running = TRUE, !.recv = "while"]
    /\ BridgeIdle

\* _recv_loop, line 120: while self._running
RecvWhile ==
    /\ bridge.recv = "while"
    /\ bridge' = [bridge EXCEPT !.recv = IF bridge.running THEN "check" ELSE "exit"]
    /\ BridgeIdle

\* line 121: if self._sock is None
RecvCheckSock ==
    /\ bridge.recv = "check"
    /\ bridge' = [bridge EXCEPT !.recv = IF bridge.sock THEN "recv" ELSE "connect"]
    /\ BridgeIdle

\* _connect, lines 145-147: a new socket object, connected when the daemon
\* listens; otherwise OSError, caught at line 152.
RecvConnect ==
    /\ bridge.recv = "connect"
    /\ bridge' = IF bridge.up
                 THEN [bridge EXCEPT !.obj = "ok", !.recv = "publish"]
                 ELSE [bridge EXCEPT !.recv = "after_connect"]
    /\ BridgeIdle

\* _connect, lines 148-150: with self._lock: self._sock = sock
RecvPublish ==
    /\ bridge.recv = "publish"
    /\ bridge.lock = "free"
    /\ bridge' = [bridge EXCEPT !.sock = TRUE, !.recv = "after_connect"]
    /\ BridgeIdle

\* line 123: if self._sock is None after _connect
RecvAfterConnect ==
    /\ bridge.recv = "after_connect"
    /\ bridge' = [bridge EXCEPT !.recv = IF bridge.sock THEN "recv" ELSE "sleep"]
    /\ BridgeIdle

\* lines 125-126: time.sleep(RECONNECT_DELAY); continue
RecvSleep ==
    /\ bridge.recv = "sleep"
    /\ bridge' = [bridge EXCEPT !.recv = "while"]
    /\ BridgeIdle

\* line 129: self._sock.recv(4096) begins; with self._sock None by now the
\* attribute lookup raises AttributeError, which no handler of the loop
\* catches: the thread ends.
RecvCall ==
    /\ bridge.recv = "recv"
    /\ bridge' = [bridge EXCEPT !.recv = IF bridge.sock THEN "in_recv" ELSE "dead"]
    /\ BridgeIdle

\* recv raises socket.timeout (line 136): nothing arrived within
\* SOCKET_TIMEOUT, also on a socket another thread closed meanwhile.
RecvTimeout ==
    /\ bridge.recv = "in_recv"
    /\ bridge.obj \in {"ok", "closed"}
    /\ bridge' = [bridge EXCEPT !.recv = "while"]
    /\ BridgeIdle

\* recv returns no data (line 130) or raises OSError (line 138): the
\* connection is lost, or another thread closed the socket.
RecvLost ==
    /\ bridge.recv = "in_recv"
    /\ bridge.obj \in {"broken", "closed"}
    /\ bridge' = [bridge EXCEPT !.recv = "close"]
    /\ BridgeIdle

\* The lines for which _dispatch calls the callback.
Directed(k) == k \in {"directed", "directed_raises"}

\* _process_buffer over the lines ks of the buffer: the lines handed to the
\* callback, and whether _dispatch raised (the loop ends there).
RECURSIVE process_buffer(_)
process_buffer(ks) ==
    IF ks = <<>> THEN [cb |-> <<>>, raised |-> FALSE]
    ELSE IF Head(ks) = "not_object" THEN [cb |-> <<>>, raised |-> TRUE]
    ELSE LET rest == process_buffer(Tail(ks))
         IN [cb |-> (IF Directed(Head(ks)) THEN <<Head(ks)>> ELSE <<>>) \o rest.cb,
             raised |-> rest.raised]

\* recv returns a line of kind k; _process_buffer and _dispatch.  Not JSON
\* returns at line 183, another event type at line 199, a raising callback
\* is caught at line 196; on JSON that is not an object msg.get (line 185)
\* raises AttributeError, which neither _dispatch nor _recv_loop catches.
RecvData(k) ==
    /\ bridge.recv = "in_recv"
    /\ bridge.obj = "ok"
    /\ Len(bridge.lines) < MaxLines
    /\ bridge' = [bridge EXCEPT !.lines = Append(@, k),
                                !.cb = @ \o process_buffer(<<k>>).cb,
                                !.recv = IF k = "not_object" THEN "dead" ELSE "while"]
    /\ BridgeIdle

\* recv returns two lines at once; _process_buffer dispatches them in turn.
RecvTwoLines(k1, k2) ==
    /\ bridge.recv = "in_recv"
    /\ bridge.obj = "ok"
    /\ Len(bridge.lines) + 2 <= MaxLines
    /\ LET r == process_buffer(<<k1, k2>>) IN
         bridge' = [bridge EXCEPT !.lines = @ \o <<k1, k2>>,
                                  !.cb = @ \o r.cb,
                                  !.recv = IF r.raised THEN "dead" ELSE "while"]
    /\ BridgeIdle

\* _close_socket called by the receiver (lines 132, 141)
RecvClose ==
    /\ bridge.recv = "close"
    /\ bridge.lock = "free"
    /\ bridge' = [bridge EXCEPT !.sock = FALSE,
                                !.obj = IF bridge.sock THEN "closed" ELSE @,
                                !.recv = "while"]
    /\ BridgeIdle

RecvStep ==
    \/ RecvWhile \/ RecvCheckSock \/ RecvConnect \/ RecvPublish \/ RecvAfterConnect
    \/ RecvSleep \/ RecvCall \/ RecvTimeout \/ RecvLost \/ RecvClose
    \/ \E k \in LineKinds : RecvData(k)
    \/ \E k1, k2 \in LineKinds : RecvTwoLines(k1, k2)

\* send(to_callsign, text) is called
SendCall ==
    /\ bridge.send = "idle"
    /\ bridge' = [bridge EXCEPT !.send = "acquire"]
    /\ BridgeIdle

\* _send_json, lines 101-104: with self._lock; not connected: return False
SendAcquire ==
    /\ bridge.send = "acquire"
    /\ bridge.lock = "free"
    /\ bridge' = IF bridge.sock
                 THEN [bridge EXCEPT !.lock = "send", !.send = "sendall"]
                 ELSE [bridge EXCEPT !.ret = "false", !.send = "idle"]
    /\ BridgeIdle

\* lines 106-108: sendall succeeded (on a lost connection the bytes may
\* still be taken); return True, the lock is released.
SendWritten ==
    /\ bridge.send = "sendall"
    /\ bridge' = [bridge EXCEPT !.ret = "true", !.lock = "free", !.send = "idle"]
    /\ BridgeIdle

\* lines 109-110: sendall raised OSError; the lock is still held.
SendFailed ==
    /\ bridge.send = "sendall"
    /\ bridge.obj = "broken"
    /\ bridge' = [bridge EXCEPT !.send = "failed"]
    /\ BridgeIdle

\* line 111: self._close_socket() inside `with self._lock`: line 156 asks
\* for the lock this thread holds, and a threading.Lock is not reentrant.
SendCloseSocket ==
    /\ bridge.send = "failed"
    /\ bridge' = [bridge EXCEPT !.send = "blocked"]
    /\ BridgeIdle

SendStep == SendAcquire \/ SendWritten \/ SendFailed \/ SendCloseSocket

\* stop(), line 75: self._running = False
StopCall ==
    /\ bridge.stop = "idle"
    /\ bridge.recv # "unstarted"
    /\ bridge' = [bridge EXCEPT !.running = FALSE, !.stop = "closing"]
    /\ BridgeIdle

\* stop(), line 76: self._close_socket()
StopClose ==
    /\ bridge.stop = "closing"
    /\ bridge.lock = "free"
    /\ bridge' = [bridge EXCEPT !.sock = FALSE,
                                !.obj = IF bridge.sock THEN "closed" ELSE @,
                                !.stop = "done"]
    /\ BridgeIdle

\* The daemon goes away: an established connection is lost.
DaemonDown ==
    /\ bridge.up
    /\ bridge' = [bridge EXCEPT !.up = FALSE,
                                !.obj = IF @ = "ok" THEN "broken" ELSE @]
    /\ BridgeIdle

\* The daemon listens again.
DaemonUp ==
    /\ ~bridge.up
    /\ bridge' = [bridge EXCEPT !.up = TRUE]
    /\ BridgeIdle

NextBridge ==
    \/ Start
    \/ RecvStep
    \/ SendCall
    \/ SendStep
    \/ StopCall
    \/ StopClose
    \/ DaemonDown
    \/ DaemonUp

SpecBridge == InitBridge /\ [][NextBridge]_vars

\* The threads keep running: a thread that can take a step takes one, and a
\* thread waiting for the lock gets it if the lock is free again and again.
FairSpecBridge ==
    /\ SpecBridge
    /\ SF_vars(RecvStep)
    /\ SF_vars(SendStep)
    /\ SF_vars(StopClose)


\* ------------------------------ a go-handler whose frames go through the bridge
\* Every send() the engine called has returned.
SendsReturned == bridge.calls = Len(sent) /\ bridge.send = "idle"

\* The bridge is started; the peer's proposal was accepted with local colour
\* White, and the front-end has sent `position startpos moves e2e4`.
InitGo ==
    /\ state = "GAME_ACTIVE"
    /\ game = 1
    /\ sessions = <<GameSession("T1", "W")>>
    /\ sent = <<Tx(fmt_acceptance("T1", "W"), "acceptance", 0)>>
    /\ files = [id \in GameIds |-> NoFile]
    /\ radio_queue = <<>>
    /\ last_position_moves = <<"e2e4">>
    /\ go_stop_event = FALSE
    /\ workers = <<>>
    /\ rx = RxIdle
    /\ auto_accept = TRUE
    /\ used = MaxEvents - 1
    /\ last_call = NoCall
    /\ bridge = [NewBridge EXCEPT !.running = TRUE, !.recv = "while", !.calls = 1]

\* self._bridge.send(...) of the engine (lines 265, 384, 398, 563): the call
\* for the next frame of `sent` begins.
EngineSend ==
    /\ bridge.send = "idle"
    /\ bridge.calls < Len(sent)
    /\ bridge' = [bridge EXCEPT !.calls = @ + 1, !.send = "acquire"]
    /\ BridgeIdle

\* A go-handler goes on only when its call of send() has returned.
GoHandlerStep ==
    /\ SendsReturned
    /\ \E w \in 1..Len(workers) :
          \/ GoStart(w)
          \/ GoReread(w)
          \/ GoLocalMove(w)
          \/ GoCheck(w)
          \/ AwaitTimeout(w)

\* The receiver thread while the daemon sends nothing.
ReceiverStep ==
    \/ RecvWhile \/ RecvCheckSock \/ RecvConnect \/ RecvPublish \/ RecvAfterConnect
    \/ RecvSleep \/ RecvCall \/ RecvTimeout \/ RecvLost \/ RecvClose

NextGo ==
    \/ HandleGo
    \/ GoHandlerStep
    \/ EngineSend
    \/ SendStep
    \/ ReceiverStep
    \/ DaemonDown
    \/ DaemonUp

SpecGo == InitGo /\ [][NextGo]_vars

\* The go-handler, the thread inside send() and the receiver keep running; a
\* thread waiting for the bridge lock gets it if it is free again and again.
FairSpecGo ==
    /\ SpecGo
    /\ WF_vars(GoHandlerStep)
    /\ WF_vars(EngineSend)
    /\ SF_vars(SendStep)
    /\ SF_vars(ReceiverStep)

\* ------------------------------------------------- state_lock (engine.py line 53)
\* Every place where the code reads or writes self._state, self._game or
\* self._last_position_moves: the line, the fields, and whether the
\* statement is inside `with self._state_lock`.
StateAccesses ==
    {[line |-> 123, fields |-> {"game", "state", "position"}, locked |-> TRUE],
     [line |-> 161, fields |-> {"position"}, locked |-> FALSE],
     [line |-> 177, fields |-> {"game", "state"}, locked |-> TRUE],
     [line |-> 190, fields |-> {"game", "state"}, locked |-> TRUE],
     [line |-> 199, fields |-> {"position"}, locked |-> FALSE],
     [line |-> 218, fields |-> {"game", "state"}, locked |-> TRUE],
     [line |-> 311, fields |-> {"game"}, locked |-> FALSE],
     [line |-> 365, fields |-> {"game"}, locked |-> FALSE],
     [line |-> 420, fields |-> {"state"}, locked |-> TRUE],
     [line |-> 441, fields |-> {"state"}, locked |-> TRUE],
     [line |-> 455, fields |-> {"state"}, locked |-> TRUE],
     [line |-> 478, fields |-> {"game", "state", "position"}, locked |-> TRUE],
     [line |-> 502, fields |-> {"game", "state", "position"}, locked |-> TRUE],
     [line |-> 535, fields |-> {"game"}, locked |-> FALSE],
     [line |-> 572, fields |-> {"state"}, locked |-> TRUE]}

\* The step of the model in which the statement at `line` is executed.
Performs(line) ==
    CASE line = 123 -> UciNewGame
      [] line = 161 -> HandlePosition
      [] line = 177 -> \E w \in 1..Len(workers) : GoStart(w)
      [] line = 190 -> \E w \in 1..Len(workers) : GoReread(w)
      [] line = 199 -> /\ state = "GAME_ACTIVE" /\ game # 0
                       /\ \E w \in 1..Len(workers) : GoReread(w)
      [] line = 218 -> \E w \in 1..Len(workers) : GoCheck(w)
      [] line = 311 -> \E w \in 1..Len(workers) : AwaitItem(w)
      [] line = 365 -> \E w \in 1..Len(workers) :
                          workers[w].retries_left > 0 /\ AwaitTimeout(w)
      [] line = 420 -> /\ OnRadioMessage
                       /\ rx'.pc = "route"
      [] line = 441 -> \E from_call \in FromCalls, f \in InboundFrames :
                          /\ parse_message(f, from_call).msg_type = "NEW_PROPOSAL"
                          /\ OnRadioFrame(from_call, f)
      [] line = 455 -> ~auto_accept /\ HandleNewProposal
      [] line = 478 -> auto_accept /\ HandleNewProposal
      [] line = 502 -> \E from_call \in FromCalls, f \in InboundFrames :
                          /\ parse_message(f, from_call).msg_type = "ACCEPTANCE"
                          /\ OnRadioFrame(from_call, f)
      [] line = 535 -> \/ /\ rx.msg.msg_type = "RESYNC_REQUEST"
                          /\ rx.state # "GAME_ACTIVE"
                          /\ RouteMessage
                       \/ /\ radio_queue # <<>>
                          /\ Head(radio_queue).msg_type = "RESYNC_REQUEST"
                          /\ \E w \in 1..Len(workers) : AwaitItem(w)
      [] line = 572 -> SendNewProposal

\* ------------------------------------- a frame left in the queue (engine.py 428)
\* The messages a peer sent during game T1 while no go-handler was waiting.
StaleItems ==
    {parse_message(Wire("RL", "MOVE", "-", "-", 1, "E2E4", "-"), "R"),
     parse_message(Wire("RL", "RS", "-", "T2", 1, "-", "-"), "R")}

\* Game T1 is active, no `go` is outstanding and one frame of the peer was
\* put on the queue: the state InitAccepted reaches by OnRadioMessage and
\* RouteMessage.
InitStale ==
    /\ state = "GAME_ACTIVE"
    /\ game = 1
    /\ \E c \in Colors :
         /\ sessions = <<GameSession("T1", Opposite(c))>>
         /\ sent = <<Tx(fmt_acceptance("T1", Opposite(c)), "acceptance", 0)>>
    /\ files = [id \in GameIds |-> NoFile]
    /\ \E item \in StaleItems : radio_queue = <<item>>
    /\ last_position_moves = <<>>
    /\ go_stop_event = FALSE
    /\ workers = <<>>
    /\ rx = RxIdle
    /\ auto_accept = TRUE
    /\ used = 0
    /\ last_call = NoCall
    /\ bridge = NewBridge

\* The peer proposes a game.
NewProposalArrives ==
    \E c \in Colors : OnRadioFrame("R", Wire("RL", "NEW", c, "-", 0, "-", "-"))

\* From here on the peer sends proposals only, so that whatever is in the
\* queue was received during game T1.
NextStale ==
    \/ UciNewGame
    \/ HandleGo
    \/ NewProposalArrives
    \/ HandleNewProposal
    \/ \E w \in 1..Len(workers) : GoStart(w)
    \/ \E w \in 1..Len(workers) : GoReread(w)
    \/ \E w \in 1..Len(workers) : GoCheck(w)
    \/ \E w \in 1..Len(workers) : AwaitItem(w)
    \/ \E w \in 1..Len(workers) : AwaitTimeout(w)

SpecStale == InitStale /\ [][NextStale]_vars

\* ------------------------------------------------------------------ claims
Last(q) == q[Len(q)]

Workers == 1..Len(workers)

IsBestMove(line) == line[1] = "bestmove"

BestMoveCount(out) == Cardinality({i \in 1..Len(out) : IsBestMove(out[i])})

\* The item a go-handler is about to take from the queue is a Move with the
\* expected ordinal and legal in the current position of self._game.
HeadIsGoodMove ==
    /\ radio_queue # <<>>
    /\ Head(radio_queue).msg_type = "MOVE"
    /\ game # 0
    /\ Head(radio_queue).move_num = expected_move_num(sessions[game])
    /\ validate_move(sessions[game].stack, Head(radio_queue).move)

\* C1: while a go-handler waits for the remote reply in GameActive (phase 2),
\* taking an inbound Move with the expected ordinal and a legal move appends
\* exactly that move to the session's move stack, changes no other session,
\* and the go-handler ends with `bestmove <move>` in lower case.
C1_GoodMoveAppliedOnceAndAnswered ==
    [][\A w \in Workers :
         (AwaitItem(w) /\ workers[w].phase = 2 /\ HeadIsGoodMove)
         => LET m == Head(radio_queue).move IN
            /\ sessions'[game].stack = Append(sessions[game].stack, m)
            /\ \A g \in 1..Len(sessions) : g # game => sessions'[g] = sessions[g]
            /\ workers'[w].pc = "done"
            /\ Last(workers'[w].out) = BestMove(m)
            /\ BestMoveCount(workers'[w].out) = 1
            /\ m \in Moves]_vars

C1_Witness ==
    \E w \in Workers :
        /\ workers[w].pc = "done"
        /\ workers[w].phase = 2
        /\ Last(workers[w].out) = BestMove("e7e5")
        /\ game # 0
        /\ sessions[game].stack = <<"e2e4", "e7e5">>

\* C2: a go-handler waiting for the remote move in GameActive that takes an
\* item other than an applicable Move (a Move rejected with ERR01, ERR02 or
\* ERR03, an Ack, an Error, a ResyncRequest, a ResyncOk, an Unknown frame) is
\* still waiting afterwards and has written no bestmove.
C2_RejectedItemKeepsWaiting ==
    [][\A w \in Workers :
         (AwaitItem(w) /\ workers[w].phase = 2 /\ ~HeadIsGoodMove)
         => /\ workers'[w].pc = "get"
            /\ BestMoveCount(workers'[w].out) = 0]_vars


\* History read off the send log and the output of a go-handler.
SentBy(w, via) == {i \in 1..Len(sent) : sent[i].by = w /\ sent[i].via = via}

RetryCount(w) == Cardinality(SentBy(w, "retry"))

LocalCount(w) == Cardinality(SentBy(w, "local"))

Waited(w) ==
    \E i \in 1..Len(workers[w].out) :
        workers[w].out[i] = Info("Waiting for remote move")

Exhausted(w) ==
    LET out == workers[w].out IN
    /\ workers[w].pc = "done"
    /\ Len(out) >= 2
    /\ out[Len(out) - 1] = Info("ERROR: no response after max retries")
    /\ out[Len(out)] = BestMove("0000")

C4_Cycle(w) ==
    /\ LocalCount(w) > 0
    /\ Waited(w)
    /\ workers[w].seen \cap {"frame", "stop"} = {}

\* One retransmission per elapsed window, max_retries in all, then the error
\* line and a single `bestmove 0000`.
C4_Retries(w) ==
    /\ RetryCount(w) <= max_retries
    /\ workers[w].pc = "get" => RetryCount(w) = max_retries - workers[w].retries_left
    /\ workers[w].pc = "done"
       => /\ Exhausted(w)
          /\ RetryCount(w) = max_retries
          /\ BestMoveCount(workers[w].out) = 1

\* C4 as stated: in every such go cycle the go-handler retransmits once per
\* elapsed window, max_retries times in all, and ends with the error line
\* and one `bestmove 0000`.
C4_Original == \A w \in Workers : C4_Cycle(w) => C4_Retries(w)

\* C4 amended: the same, for the go cycles during which no `ucinewgame`
\* clears the session.
C4_RetriesThenGiveUp ==
    \A w \in Workers : (C4_Cycle(w) /\ "newgame" \notin workers[w].seen) => C4_Retries(w)

C4_Witness ==
    \E w \in Workers :
        /\ C4_Cycle(w)
        /\ "newgame" \notin workers[w].seen
        /\ Exhausted(w)
        /\ RetryCount(w) = max_retries
        /\ max_retries > 0

\* The ply of the last move the local side played (0: none).
Mover(ply) == IF ply % 2 = 1 THEN "W" ELSE "B"

LastLocalPly(s) ==
    LET mine == {i \in 1..Len(s.stack) : Mover(i) = s.local_color}
    IN IF mine = {} THEN 0 ELSE CHOOSE i \in mine : \A j \in mine : j <= i

\* The Move frame of the last move of the local colour on the board of s.
LastLocalColourFrame(s) ==
    LET k == LastLocalPly(s)
    IN Wire("RL", "MOVE", "-", "-", k, Upper(s.stack[k]), "-")

\* The frame last transmitted as a local move (the empty set: none yet).
LocalFrames ==
    LET idx == {i \in 1..Len(sent) : sent[i].via = "local"}
    IN {sent[i].frame : i \in {j \in idx : \A k \in idx : k <= j}}

\* C5: every frame a timeout retransmission sends is the Move frame of the
\* last move played by the local side (same ordinal, same coordinates):
\* the last move of the local colour on the board, or the move last
\* transmitted as a local move.
C5_RetransmitsLastLocalMove ==
    [][\A w \in Workers :
         AwaitTimeout(w)
         => \A i \in (Len(sent) + 1)..Len(sent') :
               \/ /\ game # 0
                  /\ LastLocalPly(sessions[game]) # 0
                  /\ sent'[i].frame = LastLocalColourFrame(sessions[game])
               \/ sent'[i].frame \in LocalFrames]_vars

\* C6: a go-handler that takes a Move while a session exists checks the
\* ordinal first: an ordinal other than expected_move_num sends exactly one
\* ERR02 (whether or not the move is legal), a matching ordinal with an
\* illegal move sends exactly one ERR01; in both cases every session and the
\* notation files are left as they were.
C6_OrdinalThenLegality ==
    [][\A w \in Workers :
         (AwaitItem(w) /\ Head(radio_queue).msg_type = "MOVE" /\ game # 0)
         => LET h == Head(radio_queue)
                s == sessions[game]
                one(code) == /\ Len(sent') = Len(sent) + 1
                             /\ SubSeq(sent', 1, Len(sent)) = sent
                             /\ Last(sent').frame.kind = "ERR"
                             /\ Last(sent').frame.code = code
                             /\ sessions' = sessions
                             /\ files' = files
            IN IF h.move_num # Len(s.stack) + 1 THEN one("ERR02")
               ELSE IF ~validate_move(s.stack, h.move) THEN one("ERR01")
               ELSE sent' = sent]_vars

C6_Witness ==
    \E w \in Workers : \E i \in 1..Len(sent) :
        /\ sent[i] = Tx(Wire("RL", "ERR", "-", "-", 0, "-", "ERR02"), "reply", w)
        /\ workers[w].phase = 2
        /\ game # 0
        /\ sessions[game].stack = <<>>

\* C7: when a Move frame arrives while no session exists (state NoGame,
\* ProposalSent or AwaitingProposal) the controller sends an ERR03 frame.
C7_MoveWithoutSessionGetsErr03 ==
    [][(/\ RouteMessage
        /\ rx.msg.msg_type = "MOVE"
        /\ rx.state \in {"NO_GAME", "PROPOSAL_SENT", "AWAITING_PROPOSAL"}
        /\ game = 0)
       => /\ Len(sent') = Len(sent) + 1
          /\ Last(sent').frame.kind = "ERR"
          /\ Last(sent').frame.code = "ERR03"]_vars

\* C8: a new local move that is illegal in the position of the go-handler's
\* session ends the go-handler with the error line and `bestmove 0000`; no
\* frame is sent, no session or file changes; a go-handler that has ended
\* writes nothing, sends nothing and never waits.
C8_IllegalLocalMoveEndsGo ==
    [][\A w \in Workers :
         /\ (/\ GoLocalMove(w)
             /\ ~validate_move(sessions[workers[w].game].stack,
                               Head(workers[w].new_moves)))
            => /\ sessions' = sessions
               /\ files' = files
               /\ sent' = sent
               /\ workers'[w].pc = "done"
               /\ workers'[w].out = workers[w].out \o
                     <<Info("ERROR: invalid local move"), BestMove("0000")>>
         /\ workers[w].pc = "done"
            => /\ workers'[w] = workers[w]
               /\ \A i \in (Len(sent) + 1)..Len(sent') : sent'[i].by # w]_vars

C8_Witness ==
    \E w \in Workers :
        LET out == workers[w].out IN
        /\ workers[w].pc = "done"
        /\ Len(out) >= 2
        /\ out[Len(out) - 1] = Info("ERROR: invalid local move")
        /\ out[Len(out)] = BestMove("0000")
        /\ LocalCount(w) = 1
        /\ ~Waited(w)

\* C9: a go-handler that was live when `stop` was sent ends with
\* `bestmove 0000`.
C9_StopAnswers0000 ==
    \A w \in Workers :
        ("stop" \in workers[w].seen /\ workers[w].pc = "done")
        => Last(workers[w].out) = BestMove("0000")

\* C10: at most one go-handler is live.
C10_AtMostOneWorker == Cardinality({w \in Workers : Live(w)}) <= 1

\* C11: a go-handler that started in NoGame or AwaitingProposal and waits for
\* a game ends only with `bestmove 0000`, and only after `stop` was sent or
\* a frame arrived while it was live: never because its wait timed out.
C11_NoGameGoEndsOnStopOrFrame ==
    [][\A w \in Workers :
         (workers[w].pc = "get" /\ workers[w].phase = 1 /\ workers'[w].pc = "done")
         => /\ Last(workers'[w].out) = BestMove("0000")
            /\ workers[w].seen \cap {"stop", "frame"} # {}]_vars

\* C12: with auto-accept on, handling a NewProposal of colour c sends exactly
\* one Acceptance frame, carrying the colour opposite to c and the game id
\* just read from the clock; the engine is then GameActive with a new, empty
\* session of that game id whose local colour is the colour opposite to c.
C12_ProposalAutoAccepted ==
    [][(HandleNewProposal /\ auto_accept)
       => LET c == rx.msg.color
              mine == IF c = "W" THEN "B" ELSE "W"
              a == Last(sent').frame
          IN /\ Len(sent') = Len(sent) + 1
             /\ SubSeq(sent', 1, Len(sent)) = sent
             /\ a.kind = "ACCEPT"
             /\ a.color = mine
             /\ a.ts \in NowIds
             /\ state' = "GAME_ACTIVE"
             /\ game' = Len(sessions) + 1
             /\ Len(sessions') = Len(sessions) + 1
             /\ sessions'[game'].game_id = a.ts
             /\ sessions'[game'].local_color = mine
             /\ sessions'[game'].stack = <<>>
             /\ Doc(sessions'[game']) = [main |-> <<>>, side |-> {}, result |-> "*"]]_vars

C12_Witness ==
    /\ state = "GAME_ACTIVE"
    /\ game = 1
    /\ sessions = <<GameSession("T1", "B")>>
    /\ sent = <<Tx(Wire("LR", "ACCEPT", "B", "T1", 0, "-", "-"), "acceptance", 0)>>
    /\ rx = RxIdle
    /\ used = 1

\* C13: in ProposalSent, an Acceptance frame with timestamp ts and colour c
\* makes the engine GameActive with a new, empty session whose game id is ts
\* and whose local colour is the colour opposite to c; nothing is sent.
C13_AcceptanceStartsGame ==
    [][\A from_call \in {"", "R"}, f \in InboundFrames :
         (OnRadioFrame(from_call, f) /\ f.to = "RL" /\ f.kind = "ACCEPT"
          /\ state = "PROPOSAL_SENT")
         => /\ state' = "GAME_ACTIVE"
            /\ game' = Len(sessions) + 1
            /\ Len(sessions') = Len(sessions) + 1
            /\ sessions'[game'].game_id = f.ts
            /\ sessions'[game'].local_color = (IF f.color = "W" THEN "B" ELSE "W")
            /\ sessions'[game'].stack = <<>>
            /\ Doc(sessions'[game']) = [main |-> <<>>, side |-> {}, result |-> "*"]
            /\ sent' = sent]_vars

C13_Witness ==
    /\ state = "GAME_ACTIVE"
    /\ game = 1
    /\ sessions = <<GameSession("T1", "W")>>
    /\ Len(sent) = 1
    /\ sent[1].frame.kind = "NEW"
    /\ used = 2

\* C14: send_new_proposal(c) outside GameActive sets the state to ProposalSent
\* and sends exactly one `NEW c` frame; in GameActive it sends nothing and
\* changes neither the state nor the session.
C14_SendNewProposal ==
    [][\A c \in Colors :
         send_new_proposal(c)
         => IF state = "GAME_ACTIVE"
            THEN /\ sent' = sent
                 /\ state' = state
                 /\ game' = game
                 /\ sessions' = sessions
            ELSE /\ state' = "PROPOSAL_SENT"
                 /\ sent' = Append(sent,
                                Tx(Wire("RL", "NEW", c, "-", 0, "-", "-"), "proposal", 0))
                 /\ game' = game
                 /\ sessions' = sessions]_vars

C14_Witness ==
    /\ state = "PROPOSAL_SENT"
    /\ sent = <<Tx(Wire("RL", "NEW", "B", "-", 0, "-", "-"), "proposal", 0)>>
    /\ game = 0
    /\ used = 1

\* C15: `ucinewgame`, in whatever state, leaves the engine in NoGame with no
\* session and an empty front-end position cache.
C15_UciNewGameClears ==
    [][UciNewGame
       => /\ state' = "NO_GAME"
          /\ game' = 0
          /\ last_position_moves' = <<>>]_vars

\* A session was created and dropped again.
C15_Witness ==
    /\ state = "NO_GAME"
    /\ game = 0
    /\ Len(sessions) = 1
    /\ last_position_moves = <<>>
    /\ \E w \in Workers : "newgame" \in workers[w].seen

\* The item a go-handler is about to take is a ResyncRequest and a session
\* exists.
HeadIsResync ==
    /\ radio_queue # <<>>
    /\ Head(radio_queue).msg_type = "RESYNC_REQUEST"
    /\ game # 0

\* C16: a ResyncRequest `RS ts MN=n` handled against the session of game id
\* ts whose notation file can be read leaves the session with exactly n-1
\* plies, the first n-1 moves recorded in the file, and sends exactly one
\* `OK RS ts MN=n` frame.
C16_ResyncRestoresToOrdinal ==
    [][\A w \in Workers :
         (/\ AwaitItem(w)
          /\ HeadIsResync
          /\ Head(radio_queue).timestamp = sessions[game].game_id
          /\ files[sessions[game].game_id] # NoFile)
         => LET h == Head(radio_queue)
                n == h.resync_move_num
                recorded == files[sessions[game].game_id].main
            IN /\ Len(sessions'[game].stack) = n - 1
               /\ expected_move_num(sessions'[game]) = n
               /\ sessions'[game].stack = SubSeq(recorded, 1, n - 1)
               /\ sent' = Append(sent,
                     Tx(Wire("LR", "OKRS", "-", h.timestamp, n, "-", "-"), "reply", w))]_vars

\* C17: a ResyncRequest handled against a session whose game id differs from
\* the request's timestamp, or whose notation file is missing, sends exactly
\* one ERR05 frame and no `OK RS`, and leaves every session and file as it was.
C17_ResyncRefused ==
    [][\A w \in Workers :
         (/\ AwaitItem(w)
          /\ HeadIsResync
          /\ \/ Head(radio_queue).timestamp # sessions[game].game_id
             \/ files[sessions[game].game_id] = NoFile)
         => /\ sent' = Append(sent,
                  Tx(Wire("RL", "ERR", "-", "-", 0, "-", "ERR05"), "reply", w))
            /\ sessions' = sessions
            /\ files' = files]_vars

\* A request for another game id was refused although the file was there.
C17_Witness ==
    \E w \in Workers : \E i \in 1..Len(sent) :
        /\ sent[i] = Tx(Wire("RL", "ERR", "-", "-", 0, "-", "ERR05"), "reply", w)
        /\ game # 0
        /\ sessions[game].stack = <<"e2e4">>
        /\ files[sessions[game].game_id] # NoFile

\* ---- GameSession on its own
TheSession == sessions[game]

TheFile == files[sessions[game].game_id]

IsPrefix(p, q) == Len(p) <= Len(q) /\ p = SubSeq(q, 1, Len(p))

\* Outside a restore the move stack only changes by appending one move.
AppendOnly ==
    /\ \A m \in ApplyArgs :
          ApplyMove(m) => \/ TheSession'.stack = TheSession.stack
                          \/ TheSession'.stack = Append(TheSession.stack, m)
    /\ \A result \in Results : SetResult(result) => TheSession'.stack = TheSession.stack

\* C18 as stated: every successful restore_to_ply leaves a move stack that is
\* a prefix of the move stack just before the call; outside a restore the
\* move stack only changes by appending one move.
C18_Original ==
    [][/\ \A k \in RestorePlies :
            (RestoreToPly(k) /\ last_call'.ok)
            => IsPrefix(TheSession'.stack, TheSession.stack)
       /\ AppendOnly]_vars

\* C18 amended: every successful restore_to_ply(k) leaves as move stack the
\* first k moves of the main line of the notation file (all of it when it
\* has fewer, none when k < 0), whatever the stack was before; outside a
\* restore the move stack only changes by appending one move.
C18_RestoreIsPrefixOfFile ==
    [][/\ \A k \in RestorePlies :
            (RestoreToPly(k) /\ last_call'.ok)
            => /\ IsPrefix(TheSession'.stack, TheFile.main)
               /\ Len(TheSession'.stack) =
                     (IF k < 0 THEN 0 ELSE IF k < Len(TheFile.main) THEN k
                      ELSE Len(TheFile.main))
       /\ AppendOnly]_vars

\* A restore has cut the stack back to a proper prefix of the recorded line.
C18_Witness ==
    /\ last_call = [op |-> "restore_to_ply", ok |-> TRUE]
    /\ TheSession.stack = <<"e2e4">>
    /\ TheFile.main = <<"e2e4", "d7d5">>

\* The fragment's rules, stated on positions: e2e4 from the initial position,
\* e7e5 or d7d5 in reply.
LegalIn(stack, m) ==
    \/ stack = <<>> /\ m = "e2e4"
    \/ stack = <<"e2e4">> /\ m \in {"e7e5", "d7d5"}

\* C19: apply_move(m) returns true exactly when m parses and is legal in the
\* current position; on true, expected_move_num has grown by one and m is
\* the last move of the move list; on false, the board, the move stack and
\* the notation document (and the file) are as before.
C19_ApplyMove ==
    [][\A m \in ApplyArgs :
         ApplyMove(m)
         => /\ last_call'.op = "apply_move"
            /\ last_call'.ok = LegalIn(TheSession.stack, m)
            /\ last_call'.ok
               => /\ expected_move_num(TheSession') = expected_move_num(TheSession) + 1
                  /\ Last(TheSession'.stack) = m
                  /\ TheSession'.stack = Append(TheSession.stack, m)
            /\ ~last_call'.ok
               => /\ TheSession' = TheSession
                  /\ files' = files]_vars

C19_Witness ==
    /\ last_call = [op |-> "apply_move", ok |-> TRUE]
    /\ TheSession.stack = <<"e2e4", "d7d5">>

\* The document holds the node reached by the moves of path.
Includes(doc, path) == IsPrefix(path, doc.main) \/ path \in doc.side

\* C20: after every apply_move that returns true the notation file exists
\* and holds the move just applied; after every set_result it exists and
\* holds the result just set.
C20_FileFollowsSession ==
    [][/\ \A m \in ApplyArgs :
            (ApplyMove(m) /\ last_call'.ok)
            => /\ TheFile' # NoFile
               /\ Includes(TheFile', TheSession'.stack)
       /\ \A result \in Results :
            SetResult(result)
            => /\ TheFile' # NoFile
               /\ TheFile'.result = result]_vars



\* C21: parse_message returns a message exactly when the text begins with
\* "R L JS8CHESS", "L R JS8CHESS" or the bare "L JS8CHESS" and from_call is
\* empty or the remote callsign; otherwise it returns none.
C21_AcceptedPrefixes ==
    [][\A from_call \in FromCalls, f \in CodecTexts :
         ParseText(from_call, f)
         => ((rx'.msg # NoneMsg)
             <=> (f.to \in {"RL", "LR", "L"} /\ from_call \in {"", "R"}))]_vars

\* C22: parsing what fmt_acceptance(ts, c) produced gives an Acceptance
\* carrying ts and c, and parsing what fmt_resync_ok(ts, n) produced gives a
\* ResyncOk carrying ts and n.
C22_AcceptanceAndResyncOkRoundTrip ==
    [][/\ \A ts \in GameIds, c \in Colors :
            RoundTripAcceptance(ts, c)
            => rx'.msg = OTAMessage("ACCEPTANCE", c, ts, 0, "-", "-", 0)
       /\ \A ts \in GameIds, n \in CodecOrdinals :
            RoundTripResyncOk(ts, n)
            => rx'.msg = OTAMessage("RESYNC_OK", "-", ts, 0, "-", "-", n)]_vars

\* The coordinate moves among CodecMoves, each with its lower-case spelling.
CoordinateMoves ==
    {<<"e2e4", "e2e4">>, <<"a1a8", "a1a8">>, <<"e7e8q", "e7e8q">>, <<"E2e4", "e2e4">>}

\* C23: for every ordinal n >= 1 and every coordinate move m, with or without
\* a promotion letter, parsing what fmt_move(n, m) produced gives a Move with
\* move_num n and move m in lower case.
C23_MoveRoundTrip ==
    [][\A n \in CodecOrdinals, cm \in CoordinateMoves :
         (n >= 1 /\ RoundTripMove(n, cm[1]))
         => rx'.msg = OTAMessage("MOVE", "-", "-", n, cm[2], "-", 0)]_vars

C23_Witness ==
    /\ last_call = [op |-> "fmt_move", ok |-> TRUE]
    /\ sent = <<Tx(Wire("RL", "MOVE", "-", "-", 42, "E7E8Q", "-"), "fmt_move", 0)>>
    /\ rx.msg = OTAMessage("MOVE", "-", "-", 42, "e7e8q", "-", 0)

\* C24: a directed frame whose payload matches no kind parses to Unknown, and
\* the controller handles it (in _on_radio_message, and in the go-handler
\* that takes it from the queue) without sending a frame and without
\* changing the engine state, the session or its file.
C24_UnknownFrameIgnored ==
    [][/\ \A from_call \in {"", "R"}, f \in InboundFrames :
            (f.to \in {"RL", "L"} /\ f.kind = "JUNK" /\ OnRadioFrame(from_call, f))
            => /\ rx'.msg.msg_type = "UNKNOWN"
               /\ <<state, game, sessions, files, sent>>' =
                    <<state, game, sessions, files, sent>>
       /\ (rx.msg.msg_type = "UNKNOWN" /\ RouteMessage)
            => <<state, game, sessions, files, sent>>' =
                 <<state, game, sessions, files, sent>>
       /\ \A w \in Workers :
            (/\ radio_queue # <<>>
             /\ Head(radio_queue).msg_type = "UNKNOWN"
             /\ AwaitItem(w))
            => <<state, game, sessions, files, sent>>' =
                 <<state, game, sessions, files, sent>>]_vars

C24_Witness ==
    /\ state = "GAME_ACTIVE"
    /\ rx = RxIdle
    /\ radio_queue # <<>>
    /\ Head(radio_queue).msg_type = "UNKNOWN"
    /\ \E w \in Workers : workers[w].pc = "get"

\* C25: every call of send returns; in particular after a failed write the
\* call returns false with the socket closed and the lock free again.
C25_SendAlwaysReturns ==
    /\ (bridge.send # "idle") ~> (bridge.send = "idle")
    /\ (bridge.send = "failed")
         ~> (bridge.send = "idle" /\ bridge.ret = "false" /\ bridge.lock = "free")

\* The connection the bridge holds is lost, or a connect attempt failed.
ConnectionLost == bridge.sock /\ bridge.obj = "broken"
ConnectFailed == bridge.recv = "sleep"

\* C26: while the bridge is running, after every connection loss or failed
\* connect attempt the receiver eventually makes another connect attempt,
\* unless stop() is called, whatever send() calls happen meanwhile.
C26_ReceiverKeepsReconnecting ==
    (bridge.running /\ (ConnectionLost \/ ConnectFailed))
        ~> (bridge.recv = "connect" \/ ~bridge.running)

\* C27: once stop() has returned and the receiver loop has exited, the
\* bridge holds no socket: self._sock is None and the socket is closed.
C27_StoppedBridgeHoldsNoSocket ==
    (bridge.stop = "done" /\ bridge.recv = "exit")
        => (~bridge.sock /\ bridge.obj \in {"none", "closed"})

\* C28: no inbound line terminates the receiver: after any line the
\* receiver is back at the head of its loop.
C28_NoLineEndsReceiver ==
    [][\A k \in LineKinds : RecvData(k) => bridge'.recv = "while"]_vars

\* C29: every read and every write of the engine state, the session handle
\* and the position cache happens while state_lock is held.
C29_EveryAccessUnderLock ==
    [][\A a \in StateAccesses : Performs(a.line) => a.locked]_vars

\* C30: from the check of the engine state in _handle_new_proposal to the
\* mutation that follows it no other thread changes the engine state.
C30_CheckAndMutationAtomic ==
    [][(rx.pc = "proposal" /\ ~HandleNewProposal) => state' = state]_vars

\* The side that makes ply n of a game.
PlyColour(n) == IF n % 2 = 1 THEN "W" ELSE "B"

\* C32: every Move frame sent as a local move, first transmission or
\* retransmission, carries a move of the session's local colour.
C32_LocalFramesCarryLocalMoves ==
    [][\A w \in Workers :
         /\ (GoLocalMove(w) /\ sent' # sent)
              => PlyColour(Last(sent').frame.n) = sessions[workers[w].game].local_color
         /\ (AwaitTimeout(w) /\ sent' # sent)
              => PlyColour(Last(sent').frame.n) = sessions[game].local_color]_vars

\* C33: a Move frame of the peer is applied to the session only when it is
\* the remote side's turn to move.
C33_PeerMoveOnlyOnRemoteTurn ==
    [][\A w \in Workers :
         (/\ radio_queue # <<>>
          /\ Head(radio_queue).msg_type = "MOVE"
          /\ game # 0
          /\ AwaitItem(w)
          /\ sessions'[game].stack # sessions[game].stack)
         => Turn(sessions[game].stack) # sessions[game].local_color]_vars

\* The remote moves a go-handler applied: its "RX move" lines.
AppliedCount(out) ==
    Cardinality({i \in 1..Len(out) : out[i] = Info("RX move")})

\* C34: a go-handler that applied a remote move applied one only and ended
\* with that move as its bestmove, never with `bestmove 0000`.
C34_AppliedMoveIsTheBestMove ==
    \A w \in Workers :
        (workers[w].pc = "done" /\ AppliedCount(workers[w].out) >= 1)
        => /\ AppliedCount(workers[w].out) = 1
           /\ IsBestMove(Last(workers[w].out))
           /\ Last(workers[w].out) # BestMove("0000")

\* C36: in every reachable state a session exists if and only if the engine
\* state is GameActive.
C36_SessionIffGameActive == (game # 0) <=> (state = "GAME_ACTIVE")

\* A second game is active after ucinewgame ended the first.
C36_Witness ==
    /\ state = "GAME_ACTIVE"
    /\ game = 2
    /\ Len(sessions) = 2

\* C37: in GameActive no step but ucinewgame ends the game or changes the
\* session's game id or local colour, and a NewProposal or Acceptance frame
\* changes no state and sends nothing.
C37_ActiveGameOnlyEndedByNewGame ==
    [][(state = "GAME_ACTIVE")
       => /\ \/ /\ state' = "GAME_ACTIVE"
                /\ game' = game
                /\ sessions'[game].game_id = sessions[game].game_id
                /\ sessions'[game].local_color = sessions[game].local_color
             \/ UciNewGame
          /\ \A d \in InboundDeliveries :
                (d[2].kind \in {"NEW", "ACCEPT"} /\ OnRadioFrame(d[1], d[2]))
                => UNCHANGED <<state, game, sessions, files, sent, radio_queue, rx,
                               last_position_moves>>]_vars

\* A frame that was neither queued nor taken up arrived in GameActive while a
\* go-handler that has not run yet was live.
C37_Witness ==
    /\ state = "GAME_ACTIVE"
    /\ game = 1
    /\ rx = RxIdle
    /\ radio_queue = <<>>
    /\ Len(workers) = 1
    /\ workers[1].pc = "start"
    /\ "frame" \in workers[1].seen
    /\ Len(sent) = 1

\* C38: in ProposalSent with auto-accept off, taking up an inbound
\* NewProposal leaves the engine in ProposalSent.
C38_PendingProposalSurvives ==
    [][\A d \in InboundDeliveries :
         (/\ state = "PROPOSAL_SENT"
          /\ ~auto_accept
          /\ d[2].kind = "NEW"
          /\ OnRadioFrame(d[1], d[2]))
         => state' = "PROPOSAL_SENT"]_vars

ResyncWaiting ==
    \/ \E i \in 1..Len(radio_queue) : radio_queue[i].msg_type = "RESYNC_REQUEST"
    \/ rx.pc = "route" /\ rx.msg.msg_type = "RESYNC_REQUEST"

\* The OK RS and ERR05 frames sent so far.
ResyncAnswers ==
    Cardinality({i \in 1..Len(sent) :
                   \/ sent[i].frame.kind = "OKRS"
                   \/ sent[i].frame.kind = "ERR" /\ sent[i].frame.code = ERR_DESYNC})

\* C39: a ResyncRequest received while a session is active is eventually
\* answered with an OK RS or an ERR05 frame.
C39_ResyncRequestAnswered ==
    \A n \in 0..MaxEvents :
        (state = "GAME_ACTIVE" /\ ResyncWaiting /\ ResyncAnswers = n)
        ~> (ResyncAnswers > n)

\* C35: a frame queued during one game is not processed against a later
\* game: taking it from the queue changes no session and sends no frame.
C35_StaleFrameNotProcessed ==
    [][\A w \in Workers :
         (game >= 2 /\ AwaitItem(w)) => (sessions' = sessions /\ sent' = sent)]_vars

\* C40: the callback is invoked for the directed messages in the order the
\* daemon delivered them, none skipped and none twice.
C40_DeliveredInOrder ==
    bridge.cb = SelectSeq(bridge.lines, Directed)

\* C31: every `go` is eventually answered by exactly one bestmove line.
C31_EveryGoAnswered ==
    \A w \in 1..MaxEvents :
        (Len(workers) >= w)
        ~> (/\ Len(workers) >= w
            /\ workers[w].pc = "done"
            /\ BestMoveCount(workers[w].out) = 1)
====
